---- MODULE Spec2Model ----
(***************************************************************************)
(* Deal or No Deal (src/main.cpp): the game engine DealOrNoDealGame, the   *)
(* decision agent ComputerPlayer, the statistics GameStats and the menu    *)
(* loop GameMenu::run, as a state machine.                                 *)
(*                                                                         *)
(* Money.  The program computes with C++ doubles holding dollars, and so   *)
(* does the model: an amount is an IEEE 754 binary64 number, written       *)
(* [neg, m, e] for (-1)^neg * m * 2^e with m an odd natural number (m = 0  *)
(* and e = 0 for 0.0), and every operation (+, -, *, /, sqrt, <, the       *)
(* reading of a decimal literal) rounds its exact result to 53 significant *)
(* bits, to nearest, ties to even, as the SSE2 arithmetic of an x86-64     *)
(* build does (one rounding per operation, no fused multiply-add).  The    *)
(* amounts of the program are far from the overflow and underflow ranges,  *)
(* so infinities, NaN and subnormal numbers are left out.  Mantissas       *)
(* exceed TLC's 32-bit integers: they are sequences of 15-bit limbs, least *)
(* significant first, without leading zero limbs.  The prizes of the       *)
(* catalog are kept as whole numbers of cents where they are only moved    *)
(* about (caseValues, remainingPrizes) and become doubles (PrizeD) where   *)
(* the program computes with them.                                         *)
(***************************************************************************)
EXTENDS Integers, Sequences, FiniteSets

(***************************************************************************)
(* Natural numbers of any size (the mantissas of the doubles).             *)
(***************************************************************************)
BigBase == 8 * 4096
LimbBits == 15

RECURSIVE BigOfNat(_)
BigOfNat(n) == IF n = 0 THEN << >> ELSE <<n % BigBase>> \o BigOfNat(n \div BigBase)

RECURSIVE BigNorm(_)
BigNorm(a) ==
    IF a = << >> THEN << >>
    ELSE IF a[Len(a)] = 0 THEN BigNorm(SubSeq(a, 1, Len(a) - 1))
    ELSE a

RECURSIVE BigAddC(_, _, _)
BigAddC(a, b, carry) ==
    IF b = << >> /\ carry = 0 THEN a
    ELSE IF a = << >> /\ b = << >> THEN <<carry>>
    ELSE LET x == IF a = << >> THEN 0 ELSE Head(a)
             y == IF b = << >> THEN 0 ELSE Head(b)
             s == x + y + carry
         IN  <<s % BigBase>> \o
             BigAddC(IF a = << >> THEN << >> ELSE Tail(a),
                     IF b = << >> THEN << >> ELSE Tail(b),
                     s \div BigBase)

BigAdd(a, b) == BigAddC(a, b, 0)

\* a - b for a >= b.
RECURSIVE BigSubB(_, _, _)
BigSubB(a, b, borrow) ==
    IF b = << >> /\ borrow = 0 THEN a
    ELSE LET y == IF b = << >> THEN 0 ELSE Head(b)
             d == Head(a) - y - borrow
         IN  <<d % BigBase>> \o
             BigSubB(Tail(a), IF b = << >> THEN << >> ELSE Tail(b),
                     IF d < 0 THEN 1 ELSE 0)

BigSub(a, b) == BigNorm(BigSubB(a, b, 0))

RECURSIVE BigMulSmallC(_, _, _)
BigMulSmallC(a, k, carry) ==
    IF a = << >> THEN BigOfNat(carry)
    ELSE LET p == Head(a) * k + carry
         IN  <<p % BigBase>> \o BigMulSmallC(Tail(a), k, p \div BigBase)

BigMulSmall(a, k) == IF k = 0 THEN << >> ELSE BigMulSmallC(a, k, 0)

RECURSIVE BigMul(_, _)
BigMul(a, b) ==
    IF b = << >> \/ a = << >> THEN << >>
    ELSE BigAdd(BigMulSmall(a, Head(b)),
                LET r == BigMul(a, Tail(b))
                IN  IF r = << >> THEN << >> ELSE <<0>> \o r)

RECURSIVE BigCmpFrom(_, _, _)
BigCmpFrom(a, b, i) ==
    IF i = 0 THEN 0
    ELSE IF a[i] < b[i] THEN -1
    ELSE IF a[i] > b[i] THEN 1
    ELSE BigCmpFrom(a, b, i - 1)

BigCmp(a, b) ==
    IF Len(a) < Len(b) THEN -1
    ELSE IF Len(a) > Len(b) THEN 1
    ELSE BigCmpFrom(a, b, Len(a))

BigLess(a, b) == BigCmp(a, b) < 0

RECURSIVE BigDivSmallFrom(_, _, _, _)
BigDivSmallFrom(a, d, i, rem) ==
    IF i = 0 THEN << >>
    ELSE LET cur == rem * BigBase + a[i]
         IN  BigDivSmallFrom(a, d, i - 1, cur % d) \o <<cur \div d>>

BigDivSmall(a, d) == BigNorm(BigDivSmallFrom(a, d, Len(a), 0))

\* 10^e: 10^9 is below 2^30.
RECURSIVE BigPow10(_)
BigPow10(e) ==
    IF e < 10 THEN BigOfNat(10 ^ e) ELSE BigMul(BigOfNat(10 ^ 9), BigPow10(e - 9))

\* The number of bits of a limb x.
BitLength(x) ==
    IF x < 128
    THEN (IF x < 8 THEN (IF x < 2 THEN x ELSE IF x < 4 THEN 2 ELSE 3)
          ELSE IF x < 16 THEN 4 ELSE IF x < 32 THEN 5 ELSE IF x < 64 THEN 6 ELSE 7)
    ELSE IF x < 2048
    THEN (IF x < 256 THEN 8 ELSE IF x < 512 THEN 9 ELSE IF x < 1024 THEN 10 ELSE 11)
    ELSE IF x < 4096 THEN 12 ELSE IF x < 8192 THEN 13 ELSE IF x < 16384 THEN 14 ELSE 15

BigBitLength(a) ==
    IF a = << >> THEN 0 ELSE LimbBits * (Len(a) - 1) + BitLength(a[Len(a)])

\* a * 2^k.
BigShl(a, k) ==
    IF a = << >> THEN << >>
    ELSE [i \in 1..(k \div LimbBits) |-> 0] \o BigMulSmall(a, 2 ^ (k % LimbBits))

\* floor(a / 2^k).
BigShr(a, k) ==
    IF k \div LimbBits >= Len(a) THEN << >>
    ELSE BigDivSmall(SubSeq(a, k \div LimbBits + 1, Len(a)), 2 ^ (k % LimbBits))

\* The value of a big natural below 2^30.
BigToNat(a) ==
    IF a = << >> THEN 0 ELSE IF Len(a) = 1 THEN a[1] ELSE a[1] + BigBase * a[2]

\* The quotient digit floor(cur / b) for cur < b * BigBase, counted down from
\* the estimate q (q is not below the digit).
RECURSIVE BigQuotDigit(_, _, _)
BigQuotDigit(cur, b, q) ==
    IF q = 0 \/ BigCmp(BigMulSmall(b, q), cur) <= 0 THEN q
    ELSE BigQuotDigit(cur, b, q - 1)

\* One step of the long division by b: the digit q is put before the
\* quotient and taken out of the running remainder cur; i limbs are left.
\* The two top limbs of cur (those at and above the top limb of b) divided
\* by the top limb of b overestimate q by 2 at most when that limb has its
\* top bit set.
BigDivTake(b, i, quot, cur) ==
    LET est == ((IF Len(cur) > Len(b) THEN cur[Len(b) + 1] * BigBase ELSE 0)
                + (IF Len(cur) >= Len(b) THEN cur[Len(b)] ELSE 0)) \div b[Len(b)]
        q   == BigQuotDigit(cur, b, IF est < BigBase THEN est ELSE BigBase - 1)
    IN  [i |-> i, quot |-> <<q>> \o quot, rem |-> BigSub(cur, BigMulSmall(b, q))]

\* Long division, limb by limb from the most significant limb of a: loop is
\* the state of the loop, the number i of limbs left and the quotient and
\* the remainder of the limbs above them.
RECURSIVE BigDivModLoop(_, _, _)
BigDivModLoop(a, b, loop) ==
    IF loop.i = 0 THEN <<loop.quot, loop.rem>>
    ELSE BigDivModLoop(a, b,
             BigDivTake(b, loop.i - 1, loop.quot, BigNorm(<<a[loop.i]>> \o loop.rem)))

\* <<floor(a / b), a mod b>> for b # 0.  A divisor of one limb divides limb
\* by limb; otherwise a and b are shifted left until the top limb of b has
\* its top bit set, and the remainder is shifted back.
BigDivMod(a, b) ==
    IF Len(b) = 1
    THEN LET q == BigDivSmall(a, b[1])
         IN  <<q, BigSub(a, BigMulSmall(q, b[1]))>>
    ELSE LET sh == LimbBits - BitLength(b[Len(b)])
             A  == BigShl(a, sh)
             r  == BigDivModLoop(A, BigShl(b, sh),
                                 [i |-> Len(A), quot |-> << >>, rem |-> << >>])
         IN  <<BigNorm(r[1]), BigShr(r[2], sh)>>

\* Newton's iteration x -> floor((x + floor(a / x)) / 2) from x > sqrt(a)
\* descends to floor(sqrt(a)) and stops there.
RECURSIVE BigSqrtFrom(_, _)
BigSqrtFrom(a, x) ==
    LET y == BigDivSmall(BigAdd(x, BigDivMod(a, x)[1]), 2)
    IN  IF BigLess(y, x) THEN BigSqrtFrom(a, y) ELSE x

\* floor(sqrt(a)), from the power of 2 above the root.
BigSqrt(a) ==
    IF a = << >> THEN << >>
    ELSE BigSqrtFrom(a, BigShl(<<1>>, (BigBitLength(a) + 1) \div 2))

\* Bit i of a (bit 0 is the least significant).
BigBit(a, i) ==
    IF i \div LimbBits >= Len(a) THEN 0
    ELSE (a[i \div LimbBits + 1] \div (2 ^ (i % LimbBits))) % 2

\* The number of trailing zero bits of a # 0: those of the zero limbs below
\* the lowest limb that is not 0 and those of that limb.
BigTrailingZeros(a) ==
    LET i == CHOOSE j \in 1..Len(a) : a[j] # 0 /\ \A h \in 1..(j - 1) : a[h] = 0
    IN  LimbBits * (i - 1)
        + (CHOOSE k \in 0..(LimbBits - 1) : a[i] % 2 ^ k = 0 /\ a[i] % 2 ^ (k + 1) # 0)

(***************************************************************************)
(* binary64 arithmetic.                                                    *)
(***************************************************************************)
\* The significant bits of a binary64 number.
Precision == 53

\* 0.0.
DZero == [neg |-> FALSE, m |-> << >>, e |-> 0]

\* (-1)^neg * M * 2^e with the mantissa odd (M # 0).
DNormal(neg, M, e) ==
    IF M[1] % 2 = 1 THEN [neg |-> neg, m |-> M, e |-> e]
    ELSE LET z == BigTrailingZeros(M)
         IN  [neg |-> neg, m |-> BigShr(M, z), e |-> e + z]

\* The integer nearest to (M + f) / 2^k for M # 0 and k >= 1, where
\* 0 <= f < 1 and f > 0 iff sticky, a tie going to the even integer: the
\* floor of M / 2^k, and one more when bit k - 1 of M is set and the rest is
\* not a tie (sticky, or a bit of M below bit k - 1 is set) or the floor is
\* odd (bit k of M is set).
BigRoundShift(M, k, sticky) ==
    IF /\ BigBit(M, k - 1) = 1
       /\ (sticky \/ BigBit(M, k) = 1 \/ BigTrailingZeros(M) < k - 1)
    THEN BigAdd(BigShr(M, k), <<1>>)
    ELSE BigShr(M, k)

\* The double nearest to (-1)^neg * (M + f) * 2^e, where 0 <= f < 1 and
\* f > 0 iff sticky (then M has more than Precision + 1 bits): the bits
\* beyond Precision are cut, rounding to nearest, ties to even.
DRound(neg, M, e, sticky) ==
    IF M = << >> THEN DZero
    ELSE LET k == BigBitLength(M) - Precision
         IN  DNormal(neg,
                     IF k <= 0 THEN M ELSE BigRoundShift(M, k, sticky),
                     IF k <= 0 THEN e ELSE e + k)

DOfNat(n) == IF n = 0 THEN DZero ELSE DNormal(FALSE, BigOfNat(n), 0)

\* (-1)^negA * A * 2^e + (-1)^negB * B * 2^e, rounded: the mantissas are
\* added or, for opposite signs, the lesser taken from the greater.
DAddAligned(negA, A, negB, B, e) ==
    DRound(IF negA = negB \/ ~BigLess(A, B) THEN negA ELSE negB,
           IF negA = negB THEN BigAdd(A, B)
           ELSE IF BigLess(A, B) THEN BigSub(B, A)
           ELSE BigSub(A, B),
           e, FALSE)

\* a + b: the mantissas are brought to the lesser exponent.
DAdd(a, b) ==
    IF a.m = << >> THEN b
    ELSE IF b.m = << >> THEN a
    ELSE LET lo == IF a.e < b.e THEN a.e ELSE b.e
         IN  DAddAligned(a.neg, BigShl(a.m, a.e - lo), b.neg, BigShl(b.m, b.e - lo), lo)

DSub(a, b) == DAdd(a, IF b.m = << >> THEN b ELSE [b EXCEPT !.neg = ~b.neg])

DMul(a, b) ==
    IF a.m = << >> \/ b.m = << >> THEN DZero
    ELSE DRound(a.neg # b.neg, BigMul(a.m, b.m), a.e + b.e, FALSE)

\* The double nearest to (-1)^neg * (N / D) * 2^e, given qr = <<floor(N / D),
\* N mod D>> with a quotient of Precision + 2 bits or more: a remainder is
\* the sticky part.
DQuotient(neg, qr, e) == DRound(neg, qr[1], e, qr[2] # << >>)

\* a / b for b # 0: the quotient of a.m * 2^s by b.m has Precision + 3 bits
\* or more.
DDiv(a, b) ==
    IF a.m = << >> THEN DZero
    ELSE LET d == Precision + 3 + BigBitLength(b.m) - BigBitLength(a.m)
             s == IF d > 0 THEN d ELSE 0
         IN  DQuotient(a.neg # b.neg, BigDivMod(BigShl(a.m, s), b.m), a.e - b.e - s)

\* sqrt(a) for a >= 0: M = a.m * 2^k with a.e - k even has 2 * Precision + 4
\* bits or more, so that r = floor(sqrt(M)) has Precision + 2 bits or more;
\* an inexact root is the sticky part.
DSqrt(a) ==
    IF a.m = << >> THEN DZero
    ELSE LET d == 2 * Precision + 4 - BigBitLength(a.m)
             s == IF d > 0 THEN d ELSE 0
             k == IF (a.e - s) % 2 = 0 THEN s ELSE s + 1
             r == BigSqrt(BigShl(a.m, k))
         IN  DRound(FALSE, r, (a.e - k) \div 2, BigMul(r, r) # BigShl(a.m, k))

\* a < b: numbers of one sign are ordered by their magnitudes, those by the
\* positions ta, tb of their top bits and then by their aligned mantissas.
DLess(a, b) ==
    IF a.m = << >> THEN b.m # << >> /\ ~b.neg
    ELSE IF b.m = << >> THEN a.neg
    ELSE IF a.neg # b.neg THEN a.neg
    ELSE LET ta == BigBitLength(a.m) + a.e
             tb == BigBitLength(b.m) + b.e
             lo == IF a.e < b.e THEN a.e ELSE b.e
         IN  (IF a.neg THEN -1 ELSE 1)
             * (IF ta # tb THEN (IF ta < tb THEN -1 ELSE 1)
                ELSE BigCmp(BigShl(a.m, a.e - lo), BigShl(b.m, b.e - lo))) < 0

DLeq(a, b) == ~DLess(b, a)

\* The double nearest to d * 10^x (a decimal literal or text): for x < 0 the
\* quotient of d * 2^s by 10^-x has Precision + 3 bits or more.
DOfDecimal(d, x) ==
    IF d = 0 THEN DZero
    ELSE IF x >= 0 THEN DRound(FALSE, BigMul(BigOfNat(d), BigPow10(x)), 0, FALSE)
    ELSE LET s == Precision + 3 + BigBitLength(BigPow10(-x))
         IN  DQuotient(FALSE, BigDivMod(BigShl(BigOfNat(d), s), BigPow10(-x)), -s)

(***************************************************************************)
(* The double constants of the program.                                    *)
(***************************************************************************)

\* 1.0 (line 105).
One == DOfNat(1)

\* 0.1 and 0.05 (line 245), 0.9 (lines 128, 246), 0.85 (line 132), 0.8 (line
\* 137), 0.4 (line 137), 0.3 (line 114).
Tenth          == DOfDecimal(1, -1)
Twentieth      == DOfDecimal(5, -2)
NineTenths     == DOfDecimal(9, -1)
EightyFiveHundredths == DOfDecimal(85, -2)
EightTenths    == DOfDecimal(8, -1)
FourTenths     == DOfDecimal(4, -1)
ThreeTenths    == DOfDecimal(3, -1)

(***************************************************************************)
(* The prize catalog (initializePrizes), in cents, in catalog order.       *)
(***************************************************************************)
allPrizes ==
    << 1, 100, 500, 1000, 2500, 5000, 7500, 10000, 20000, 30000,
       40000, 50000, 75000, 100000, 500000, 1000000, 2500000, 5000000,
       7500000, 10000000, 20000000, 30000000, 40000000, 50000000, 75000000,
       100000000 >>

NumCases == 26

\* Mutant: a schedule of ten rounds over the same 24 cases.
scheduleOfTen == <<5, 5, 4, 3, 2, 1, 1, 1, 1, 1>>

\* Mutant: the first round opens 7 cases (25 of 26 in all).
scheduleOfTwentyFive == <<7, 5, 4, 3, 2, 1, 1, 1, 1>>

\* casesToOpenPerRound, the schedule of playGame and computerPlay.
casesToOpenPerRound == <<6, 5, 4, 3, 2, 1, 1, 1, 1>>

Min(a, b) == IF a < b THEN a ELSE b

RECURSIVE SumSeq(_)
SumSeq(s) == IF s = << >> THEN 0 ELSE Head(s) + SumSeq(Tail(s))

\* The double of a prize of the catalog, given in cents (initializePrizes:
\* the literals 0.01, 1.0, 5.0, ... 1000000.0).
PrizeD(c) == IF c % 100 = 0 THEN DOfNat(c \div 100) ELSE DOfDecimal(c, -2)

\* "for (double prize : prizes) sum += prize": loop is the state of the loop,
\* the position i of the next prize and the sum so far.
RECURSIVE accumulate(_, _)
accumulate(prizes, loop) ==
    IF loop.i > Len(prizes) THEN loop.sum
    ELSE accumulate(prizes, [i   |-> loop.i + 1,
                             sum |-> DAdd(loop.sum, PrizeD(prizes[loop.i]))])

\* How many prizes from position i on are whole dollars, up to the first
\* that is not.
RECURSIVE wholeDollarsFrom(_, _)
wholeDollarsFrom(prizes, i) ==
    IF i > Len(prizes) \/ prizes[i] % 100 # 0 THEN 0
    ELSE 1 + wholeDollarsFrom(prizes, i + 1)

\* The sum of the loop above, from 0.0.  Whole numbers of dollars add up
\* without rounding (every partial sum is a whole number far below 2^53), so
\* the leading whole-dollar prizes are added as integers.
sumOf(prizes) ==
    LET k == wholeDollarsFrom(prizes, 1)
    IN  accumulate(prizes, [i   |-> k + 1,
                            sum |-> DOfNat(SumSeq([j \in 1..k |-> prizes[j] \div 100]))])

(***************************************************************************)
(* ComputerPlayer: the decision agent.                                     *)
(***************************************************************************)
\* calculateExpectedValue: sum / size, 0.0 for an empty list.
calculateExpectedValue(prizes) ==
    IF prizes = << >> THEN DZero
    ELSE DDiv(sumOf(prizes), DOfNat(Len(prizes)))

\* "variance += (prize - mean) * (prize - mean)": loop is the state of the
\* loop, the position i of the next prize and the variance so far.
RECURSIVE squaredDeviations(_, _, _)
squaredDeviations(prizes, mean, loop) ==
    IF loop.i > Len(prizes) THEN loop.variance
    ELSE squaredDeviations(prizes, mean,
             [i        |-> loop.i + 1,
              variance |-> DAdd(loop.variance,
                                DMul(DSub(PrizeD(prizes[loop.i]), mean),
                                     DSub(PrizeD(prizes[loop.i]), mean)))])

\* Mutant: the sample standard deviation (dividing by size - 1).
calculateStandardDeviationSample(prizes) ==
    IF Len(prizes) <= 1 THEN DZero
    ELSE DSqrt(DDiv(squaredDeviations(prizes, calculateExpectedValue(prizes),
                                      [i |-> 1, variance |-> DZero]),
                    DOfNat(Len(prizes) - 1)))

\* calculateStandardDeviation: 0.0 for size <= 1, else the square root of
\* the variance: the squared deviations from mean =
\* calculateExpectedValue(remainingPrizes), summed and divided by size.
calculateStandardDeviation(prizes) ==
    IF Len(prizes) <= 1 THEN DZero
    ELSE DSqrt(DDiv(squaredDeviations(prizes, calculateExpectedValue(prizes),
                                      [i |-> 1, variance |-> DZero]),
                    DOfNat(Len(prizes))))

\* How many prizes are strictly greater than the offer (betterCount).
RECURSIVE betterCount(_, _)
betterCount(prizes, bankOffer) ==
    IF prizes = << >> THEN 0
    ELSE (IF DLess(bankOffer, PrizeD(Head(prizes))) THEN 1 ELSE 0)
         + betterCount(Tail(prizes), bankOffer)

\* calculateRiskFactor: probBetter - riskAdjustment * 0.3, with probBetter =
\* (double)betterCount / size and riskAdjustment = stdDev / (expectedValue
\* + 1.0) (the list is not empty where it is called).
calculateRiskFactor(prizes, bankOffer) ==
    DSub(DDiv(DOfNat(betterCount(prizes, bankOffer)), DOfNat(Len(prizes))),
         DMul(DDiv(calculateStandardDeviation(prizes),
                   DAdd(calculateExpectedValue(prizes), One)),
              ThreeTenths))

\* Mutant: the tiers begin at 10 and at 5 cases (>= for >).
acceptByTierFrom(prizes, bankOffer, casesRemaining, expectedValue) ==
    IF casesRemaining >= 10
    THEN DLeq(DMul(expectedValue, NineTenths), bankOffer)
    ELSE IF casesRemaining >= 5
    THEN DLeq(DMul(expectedValue, EightyFiveHundredths), bankOffer)
    ELSE \/ DLess(calculateRiskFactor(prizes, bankOffer), FourTenths)
         \/ DLeq(DMul(expectedValue, EightTenths), bankOffer)

shouldAcceptDealFrom(prizes, bankOffer, casesRemaining) ==
    IF prizes = << >> THEN TRUE
    ELSE acceptByTierFrom(prizes, bankOffer, casesRemaining, calculateExpectedValue(prizes))

\* Mutant: the end-game rule is applied from 10 cases on (the Mid tier is
\* skipped).
acceptLateFromTen(prizes, bankOffer, casesRemaining, expectedValue) ==
    IF casesRemaining > 10
    THEN DLeq(DMul(expectedValue, NineTenths), bankOffer)
    ELSE \/ DLess(calculateRiskFactor(prizes, bankOffer), FourTenths)
         \/ DLeq(DMul(expectedValue, EightTenths), bankOffer)

shouldAcceptDealLateFromTen(prizes, bankOffer, casesRemaining) ==
    IF prizes = << >> THEN TRUE
    ELSE acceptLateFromTen(prizes, bankOffer, casesRemaining, calculateExpectedValue(prizes))

\* The tiers of shouldAcceptDeal, given expectedValue: "bankOffer >=
\* expectedValue * 0.9" with more than 10 cases, "* 0.85" with more than 5,
\* else "riskFactor < 0.4 || bankOffer >= expectedValue * 0.8".
acceptByTier(prizes, bankOffer, casesRemaining, expectedValue) ==
    IF casesRemaining > 10
    THEN DLeq(DMul(expectedValue, NineTenths), bankOffer)
    ELSE IF casesRemaining > 5
    THEN DLeq(DMul(expectedValue, EightyFiveHundredths), bankOffer)
    ELSE \/ DLess(calculateRiskFactor(prizes, bankOffer), FourTenths)
         \/ DLeq(DMul(expectedValue, EightTenths), bankOffer)

\* shouldAcceptDeal: true for an empty list, else the tier's rule on
\* expectedValue = calculateExpectedValue(remainingPrizes).
shouldAcceptDeal(prizes, bankOffer, casesRemaining) ==
    IF prizes = << >> THEN TRUE
    ELSE acceptByTier(prizes, bankOffer, casesRemaining, calculateExpectedValue(prizes))

\* Mutant: the advisor applies the Mid rule whatever casesRemaining is.
getAdviceMid(prizes, bankOffer, casesRemaining) ==
    IF prizes = << >> THEN "DEAL"
    ELSE IF DLeq(DMul(calculateExpectedValue(prizes), EightyFiveHundredths), bankOffer)
    THEN "DEAL"
    ELSE "NO DEAL"

\* getAdvice: the recommendation line shown to the human ("DEAL"/"NO DEAL").
getAdvice(prizes, bankOffer, casesRemaining) ==
    IF prizes = << >> THEN "DEAL"
    ELSE IF shouldAcceptDeal(prizes, bankOffer, casesRemaining) THEN "DEAL"
    ELSE "NO DEAL"

(***************************************************************************)
(* Randomness.  std::shuffle with the mt19937 generator can produce any    *)
(* permutation; the model draws one of the permutations Shuffled(seq, s),  *)
(* s in 0..MaxSeed: even s rotates the sequence left by 7 * (s / 2)        *)
(* places, odd s also reverses it.                                         *)
(***************************************************************************)
MaxSeed == 1
Seeds == 0..MaxSeed

Rotate(seq, k) ==
    [i \in 1..Len(seq) |-> seq[((i - 1 + k) % Len(seq)) + 1]]

Reverse(seq) == [i \in 1..Len(seq) |-> seq[Len(seq) + 1 - i]]

Shuffled(seq, s) ==
    IF seq = << >> THEN seq
    ELSE IF s % 2 = 0 THEN Rotate(seq, 7 * (s \div 2))
    ELSE Reverse(Rotate(seq, 7 * (s \div 2)))

\* The ids 0..25 of the cases, as C++ indexes them.
CaseIds == 0..(NumCases - 1)

\* Mutant: every id is taken as available, open or not.
RECURSIVE availableAll(_, _)
availableAll(opened, i) ==
    IF i \notin DOMAIN opened THEN << >>
    ELSE <<i>> \o availableAll(opened, i + 1)

\* The unopened case ids from id i upwards, ascending (availableCases).
RECURSIVE availableFrom(_, _)
availableFrom(opened, i) ==
    IF i \notin DOMAIN opened THEN << >>
    ELSE (IF opened[i] THEN << >> ELSE <<i>>) \o availableFrom(opened, i + 1)

\* selectCasesToOpen: the first min(numToOpen, available) ids of the shuffled
\* list of unopened ids.
selectCasesToOpen(opened, numToOpen, seed) ==
    LET availableCases == Shuffled(availableFrom(opened, 0), seed)
    IN  SubSeq(availableCases, 1, Min(numToOpen, Len(availableCases)))

\* Mutant: the player's case is not removed from the selection.
EraseNothing(seq, x) == seq

\* std::remove + erase: the sequence without the occurrences of x.
RECURSIVE Erase(_, _)
Erase(seq, x) ==
    IF seq = << >> THEN << >>
    ELSE (IF Head(seq) = x THEN << >> ELSE <<Head(seq)>>) \o Erase(Tail(seq), x)

\* Mutant: the search of the batch never finds the id.
ContainsNever(seq, x) == FALSE

\* std::find(casesToOpen.begin(), casesToOpen.end(), x) != casesToOpen.end().
Contains(seq, x) == \E i \in 1..Len(seq) : seq[i] = x

(***************************************************************************)
(* DealOrNoDealGame: prizes, cases, offers.                                *)
(***************************************************************************)
\* Mutant: the list is left in case order (no sort).
InsertFront(seq, v) == <<v>> \o seq

\* Insert v into a descending sequence.
RECURSIVE InsertDesc(_, _)
InsertDesc(seq, v) ==
    IF seq = << >> THEN <<v>>
    ELSE IF v >= Head(seq) THEN <<v>> \o seq
    ELSE <<Head(seq)>> \o InsertDesc(Tail(seq), v)

RECURSIVE SortDesc(_)
SortDesc(seq) == IF seq = << >> THEN << >> ELSE InsertDesc(SortDesc(Tail(seq)), Head(seq))

\* The values of the unopened cases from id i upwards, in id order.
RECURSIVE unopenedValuesFrom(_, _, _)
unopenedValuesFrom(values, opened, i) ==
    IF i >= NumCases THEN << >>
    ELSE (IF opened[i] THEN << >> ELSE <<values[i]>>)
         \o unopenedValuesFrom(values, opened, i + 1)

\* updateRemainingPrizes: the values behind the unopened cases, descending.
updateRemainingPrizes(values, opened) == SortDesc(unopenedValuesFrom(values, opened, 0))

\* Mutant: each case draws a prize of its own; prizes may repeat.
shuffledWithRepeats(seed) ==
    LET perm == Shuffled(allPrizes, seed)
    IN  [i \in CaseIds |-> perm[((3 * i) % (NumCases - 1)) + 1]]

\* shufflePrizes: the assignment of the catalog to the case ids 0..25.
shuffledCaseValues(seed) ==
    LET perm == Shuffled(allPrizes, seed)
    IN  [i \in CaseIds |-> perm[i + 1]]

allClosed == [i \in CaseIds |-> FALSE]

\* "if (p > cap) p = cap".
cappedAt(p, cap) == IF DLess(cap, p) THEN cap ELSE p

\* Mutant: past the cap the percentage falls to 0.09.
offerPercentageSlip(r) ==
    IF DLess(NineTenths, DAdd(Tenth, DMul(DOfNat(r), Twentieth))) THEN DOfDecimal(9, -2)
    ELSE DAdd(Tenth, DMul(DOfNat(r), Twentieth))

\* Mutant: the percentage of the round after this one.
offerPercentageAhead(r) == cappedAt(DAdd(Tenth, DMul(DOfNat(r + 1), Twentieth)), NineTenths)

\* "offerPercentage = 0.1 + (round * 0.05); if (offerPercentage > 0.9)
\* offerPercentage = 0.9".
offerPercentage(r) == cappedAt(DAdd(Tenth, DMul(DOfNat(r), Twentieth)), NineTenths)

\* Mutant: the sum is divided by the number of cases, not of hidden prizes.
calculateBankOfferOverAll(prizes, r) ==
    IF prizes = << >> THEN DZero
    ELSE DMul(DDiv(sumOf(prizes), DOfNat(NumCases)), offerPercentage(r))

\* calculateBankOffer: averageValue = sum / size of the remaining prizes,
\* times the percentage; 0.0 for an empty list.
calculateBankOffer(prizes, r) ==
    IF prizes = << >> THEN DZero
    ELSE DMul(DDiv(sumOf(prizes), DOfNat(Len(prizes))), offerPercentage(r))

(***************************************************************************)
(* openCases: the ids of the batch are opened one by one; an id outside    *)
(* 0..25 or an already open id throws GameStateException at that id, after *)
(* the ids before it have been marked open and before                      *)
(* updateRemainingPrizes runs.  The result is the state the call leaves.   *)
(***************************************************************************)
RECURSIVE openLoop(_, _)
openLoop(opened, batch) ==
    IF batch = << >> THEN [ok |-> TRUE, opened |-> opened]
    ELSE LET caseNum == Head(batch)
         IN  IF caseNum < 0 \/ caseNum >= NumCases THEN [ok |-> FALSE, opened |-> opened]
             ELSE IF opened[caseNum] THEN [ok |-> FALSE, opened |-> opened]
             ELSE openLoop([opened EXCEPT ![caseNum] = TRUE], Tail(batch))

\* Mutant: every call starts from a cleared casesOpened.
openCasesCleared(values, opened, remaining, batch) ==
    LET r == openLoop(allClosed, batch)
    IN  [ok        |-> r.ok,
         opened    |-> r.opened,
         remaining |-> IF r.ok THEN updateRemainingPrizes(values, r.opened)
                       ELSE remaining]

openCases(values, opened, remaining, batch) ==
    LET r == openLoop(opened, batch)
    IN  [ok        |-> r.ok,
         opened    |-> r.opened,
         remaining |-> IF r.ok THEN updateRemainingPrizes(values, r.opened)
                       ELSE remaining]

(***************************************************************************)
(* GameStats and its file.                                                 *)
(***************************************************************************)
\* GameStats(): the default-constructed statistics.
newStats ==
    [gamesPlayed |-> 0, gamesWon |-> 0, totalWinnings |-> DZero,
     bestWinning |-> DZero, averageWinning |-> DZero]

\* GameStats::updateStats.
updateStats(st, winnings) ==
    [gamesPlayed    |-> st.gamesPlayed + 1,
     gamesWon       |-> IF DLess(DZero, winnings) THEN st.gamesWon + 1
                        ELSE st.gamesWon,
     totalWinnings  |-> DAdd(st.totalWinnings, winnings),
     bestWinning    |-> IF DLess(st.bestWinning, winnings) THEN winnings
                        ELSE st.bestWinning,
     averageWinning |-> DDiv(DAdd(st.totalWinnings, winnings),
                             DOfNat(st.gamesPlayed + 1))]

\* d * 10^x with the trailing zeros of d moved into the exponent (d # 0).
RECURSIVE StripZeros(_, _)
StripZeros(d, x) == IF d % 10 = 0 THEN StripZeros(d \div 10, x + 1) ELSE [d |-> d, x |-> x]

\* a decimal number d * 10^x of the file, d = 0 or d not a multiple of 10.
Decimal(d, x) == IF d = 0 THEN [d |-> 0, x |-> 0] ELSE StripZeros(d, x)

\* The least k from k0 upwards with num / den < 10^(k + 6).
RECURSIVE DecimalExponent(_, _, _)
DecimalExponent(num, den, k) ==
    IF (IF k + 6 >= 0 THEN BigLess(num, BigMul(den, BigPow10(k + 6)))
        ELSE BigLess(BigMul(num, BigPow10(-(k + 6))), den))
    THEN k
    ELSE DecimalExponent(num, den, k + 1)

(***************************************************************************)
(* operator<< on a double, as saveStats uses it: the default format and    *)
(* precision of a stream, i.e. the 6 significant decimal digits nearest to *)
(* the double's exact value (an exact tie goes to the even digit), without *)
(* trailing zeros.  The result is the number the text denotes (the text    *)
(* "1.23457e+06" is 123457 * 10^1).                                        *)
(***************************************************************************)
\* The digits: the integer nearest to N / D, given qr = <<floor(2N / D),
\* 2N mod D>>.
writeDigits(qr, k) == Decimal(BigToNat(BigRoundShift(qr[1], 1, qr[2] # << >>)), k)

\* num / den written with the exponent k, 10^(k+5) <= num / den < 10^(k+6).
writeScaled(num, den, k) ==
    writeDigits(BigDivMod(BigMulSmall(IF k < 0 THEN BigMul(num, BigPow10(-k)) ELSE num, 2),
                          IF k > 0 THEN BigMul(den, BigPow10(k)) ELSE den),
                k)

\* The double is num / den exactly and has the top bit 2^bits; the search
\* of the exponent starts below floor(bits * log10(2)) - 5.
writeDouble(a) ==
    IF a.m = << >> THEN Decimal(0, 0)
    ELSE LET num  == IF a.e > 0 THEN BigShl(a.m, a.e) ELSE a.m
             den  == IF a.e < 0 THEN BigShl(<<1>>, -a.e) ELSE <<1>>
             bits == BigBitLength(a.m) + a.e - 1
         IN  writeScaled(num, den,
                 DecimalExponent(num, den,
                     (IF bits >= 0 THEN (bits * 30102) \div 100000
                      ELSE -((-bits * 30103 + 99999) \div 100000)) - 6))

\* operator>> on a double, as loadStats uses it: the double nearest to the
\* decimal number read.
readDouble(n) == DOfDecimal(n.d, n.x)

\* saveStats: the four lines written to dealornodeal_stats.txt.
saveStats(st) ==
    [exists        |-> TRUE,
     gamesPlayed   |-> st.gamesPlayed,
     gamesWon      |-> st.gamesWon,
     totalWinnings |-> writeDouble(st.totalWinnings),
     bestWinning   |-> writeDouble(st.bestWinning)]

\* No dealornodeal_stats.txt (the numbers of such a record are never read).
NoFile ==
    [exists |-> FALSE, gamesPlayed |-> 0, gamesWon |-> 0,
     totalWinnings |-> Decimal(0, 0), bestWinning |-> Decimal(0, 0)]

\* loadStats into default-constructed statistics: the file's four numbers
\* when the file opens, the defaults otherwise.
loadStats(f) ==
    IF ~f.exists THEN newStats
    ELSE [gamesPlayed    |-> f.gamesPlayed,
          gamesWon       |-> f.gamesWon,
          totalWinnings  |-> readDouble(f.totalWinnings),
          bestWinning    |-> readDouble(f.bestWinning),
          averageWinning |-> IF f.gamesPlayed > 0
                             THEN DDiv(readDouble(f.totalWinnings), DOfNat(f.gamesPlayed))
                             ELSE DZero]

(***************************************************************************)
(* The state.                                                              *)
(***************************************************************************)
VARIABLES
    pc,               \* where the process waits: "menu", "choose" (lucky case),
                      \* "select" (a case to open), "deal" (Deal or No Deal?),
                      \* "computer_start", "computer_round", "exit"
    file,             \* dealornodeal_stats.txt: NoFile or its four numbers
    stats,            \* DealOrNoDealGame::stats of the current game object
    caseValues,       \* DealOrNoDealGame::caseValues (cents, by case id)
    casesOpened,      \* DealOrNoDealGame::casesOpened (by case id)
    remainingPrizes,  \* DealOrNoDealGame::remainingPrizes (cents, descending)
    playerCase,       \* DealOrNoDealGame::playerCase
    round,            \* DealOrNoDealGame::round
    finalWinning,     \* DealOrNoDealGame::finalWinning (money)
    roundIdx,         \* position of the for loop in casesToOpenPerRound (1..9)
    casesToOpen,      \* the local batch casesToOpen of the current round
    bankOffer,        \* the local bankOffer of the current round (money)
    mode,             \* "none", "human" (playGame) or "computer" (computerPlay)
    outcome,          \* how the current game ended: "none" (not yet), "deal",
                      \* "reveal" (final case reveal), "abandoned" (exception)
    started,          \* history: games started by this process (menu 1 or 2)
    loads,            \* history: calls of loadStats by this process
    saves,            \* history: calls of saveStats by this process
    updates,          \* history: calls of updateStats by the current game object
    offers,           \* history: bank offers made in the current game
    loaded,           \* history: the statistics the current game object loaded
    startStats,       \* history: the statistics loaded at process start
    ledger,           \* history: the games concluded by this process and the
                      \* sum of their payouts
    resets,           \* history: resetStatistics was chosen in this process
    call              \* history: the latest call of the advisor (getAdvice or
                      \* shouldAcceptDeal) in the current game, with its arguments
                      \* and answer, NoCall before the first; or, where a function
                      \* is applied on its own, that call

vars == <<pc, file, stats, caseValues, casesOpened, remainingPrizes, playerCase,
          round, finalWinning, roundIdx, casesToOpen, bankOffer, mode, outcome,
          started, loads, saves, updates, offers, loaded, startStats, ledger, resets,
          call>>

gameVars == <<caseValues, casesOpened, remainingPrizes, playerCase, round,
              finalWinning, roundIdx, casesToOpen, bankOffer, outcome, updates, offers>>

(***************************************************************************)
(* Bounds of the inputs.                                                   *)
(***************************************************************************)
\* Games one process starts in SpecProcess.
MaxGames == 2
\* The lucky case (human input, or dist(rng) of the computer) is in 0..MaxPlayerCase.
MaxPlayerCase == 1
\* A human opens one of the MaxPick lowest ids the prompt would accept.
MaxPick == 1

PlayerCaseInputs == 0..MaxPlayerCase

\* The statistics file found at process start: none, or one left by earlier
\* processes (3 games, 2 won, $131478 in total, best $100000).
InitialFiles ==
    { NoFile,
      [exists |-> TRUE, gamesPlayed |-> 3, gamesWon |-> 2,
       totalWinnings |-> Decimal(131478, 0), bestWinning |-> Decimal(100000, 0)] }

(***************************************************************************)
(* Construction.  GameMenu() constructs the first game object, whose       *)
(* constructor loads the statistics.                                       *)
(***************************************************************************)
Constructed ==
    /\ file \in InitialFiles
    /\ stats = loadStats(file)
    /\ pc = "menu"
    /\ caseValues = << >>
    /\ casesOpened = << >>
    /\ remainingPrizes = << >>
    /\ playerCase = -1
    /\ round = 0
    /\ finalWinning = DZero
    /\ roundIdx = 0
    /\ casesToOpen = << >>
    /\ bankOffer = DZero
    /\ mode = "none"
    /\ outcome = "none"
    /\ started = 0
    /\ loads = 1
    /\ saves = 0
    /\ updates = 0
    /\ offers = 0
    /\ loaded = stats
    /\ startStats = stats
    /\ ledger = [games |-> 0, winnings |-> DZero]
    /\ resets = FALSE

\* No call of the advisor yet.
NoCall == [op |-> "none"]

Init == Constructed /\ call = NoCall

(***************************************************************************)
(* Fragments shared by playGame and computerPlay.                          *)
(***************************************************************************)
\* Mutant: the outcome is recorded twice.
ConcludeTwice(winning, how) ==
    /\ finalWinning' = winning
    /\ stats' = updateStats(updateStats(stats, winning), winning)
    /\ updates' = updates + 2
    /\ ledger' = [games |-> ledger.games + 1, winnings |-> DAdd(ledger.winnings, winning)]
    /\ outcome' = how
    /\ pc' = "menu"

\* "stats.updateStats(finalWinning); return" and the return to the menu.
Conclude(winning, how) ==
    /\ finalWinning' = winning
    /\ stats' = updateStats(stats, winning)
    /\ updates' = updates + 1
    /\ ledger' = [games |-> ledger.games + 1, winnings |-> DAdd(ledger.winnings, winning)]
    /\ outcome' = how
    /\ pc' = "menu"

\* Mutant: the reveal pays the highest prize still hidden.
FinalRevealTop == Conclude(PrizeD(remainingPrizes'[1]), "reveal")

\* The final case reveal after the loop (lines 495-501, 560-564).
FinalReveal == Conclude(PrizeD(caseValues'[playerCase']), "reveal")

\* Mutant: the game given up is recorded with the winnings so far.
AbandonRecorded ==
    /\ outcome' = "abandoned"
    /\ pc' = "menu"
    /\ stats' = updateStats(stats, finalWinning)
    /\ updates' = updates + 1
    /\ UNCHANGED <<finalWinning, ledger>>

\* catch (const GameException&), lines 503-504: the error is printed, playGame
\* returns and GameMenu::run shows the menu again.
Abandon ==
    /\ outcome' = "abandoned"
    /\ pc' = "menu"
    /\ UNCHANGED <<finalWinning, stats, updates, ledger>>

\* Mutant: the loop never ends for want of hidden prizes.
TooFewNever(remaining) == FALSE

\* "if (remainingPrizes.size() <= 1) break;" (lines 441, 470, 526, 538).
TooFewLeft(remaining) == Len(remaining) <= 1

\* Mutant: the player's own case is not counted among the cases remaining.
casesRemainingOthers(remaining) == Len(remaining) - 1

\* The casesRemaining argument of getAdvice (line 479) and shouldAcceptDeal
\* (line 544): remainingPrizes.size().
casesRemainingArg(remaining) == Len(remaining)

\* playGame line 479: getAdvice(remainingPrizes, bankOffer,
\* remainingPrizes.size()) is printed with the offer.
AdvisorAsked(remaining, offer) ==
    call' = [op |-> "getAdvice", prizes |-> remaining, bankOffer |-> offer,
             casesRemaining |-> casesRemainingArg(remaining),
             answer |-> getAdvice(remaining, offer, casesRemainingArg(remaining))]

\* computerPlay line 544: shouldAcceptDeal(remainingPrizes, bankOffer,
\* remainingPrizes.size()) decides.
ComputerAsked(remaining, offer) ==
    call' = [op |-> "shouldAcceptDeal", prizes |-> remaining, bankOffer |-> offer,
             casesRemaining |-> casesRemainingArg(remaining),
             answer |-> IF shouldAcceptDeal(remaining, offer, casesRemainingArg(remaining))
                        THEN "DEAL" ELSE "NO DEAL"]

\* The top of the for loop over casesToOpenPerRound with the loop at position
\* idx: past the schedule, or with at most one prize left, the loop ends.
LoopEnds(idx, remaining) == idx > Len(casesToOpenPerRound) \/ TooFewLeft(remaining)

(***************************************************************************)
(* GameMenu::run: one menu choice.  1 and 2 construct a new game object    *)
(* (its constructor loads the file), then destroy the old one (its         *)
(* destructor saves the old statistics), then start the game.              *)
(***************************************************************************)
NewGame(who, next) ==
    /\ pc = "menu"
    /\ stats' = loadStats(file)
    /\ file' = saveStats(stats)
    /\ loads' = loads + 1
    /\ saves' = saves + 1
    /\ started' = started + 1
    /\ mode' = who
    /\ pc' = next
    /\ caseValues' = << >>
    /\ casesOpened' = << >>
    /\ remainingPrizes' = << >>
    /\ playerCase' = -1
    /\ round' = 0
    /\ finalWinning' = DZero
    /\ roundIdx' = 0
    /\ casesToOpen' = << >>
    /\ bankOffer' = DZero
    /\ outcome' = "none"
    /\ updates' = 0
    /\ offers' = 0
    /\ loaded' = loadStats(file)
    /\ call' = NoCall
    /\ UNCHANGED <<startStats, ledger, resets>>

MenuPlay == NewGame("human", "choose")

MenuComputer == NewGame("computer", "computer_start")

\* 3 (statistics), 5 (rules) and any other number only print.
MenuShow(choice) ==
    /\ pc = "menu"
    /\ choice \in {3, 5, 7}
    /\ UNCHANGED vars

\* 4: resetStatistics.
MenuReset ==
    /\ pc = "menu"
    /\ stats' = newStats
    /\ file' = NoFile
    /\ resets' = TRUE
    /\ UNCHANGED <<pc, mode, started, loads, saves, loaded, startStats, ledger, call>>
    /\ UNCHANGED gameVars

\* 6: run returns, the menu and its game object are destroyed.
MenuExit ==
    /\ pc = "menu"
    /\ pc' = "exit"
    /\ file' = saveStats(stats)
    /\ saves' = saves + 1
    /\ UNCHANGED <<stats, mode, started, loads, loaded, startStats, ledger, resets,
                   call>>
    /\ UNCHANGED gameVars

(***************************************************************************)
(* playGame and computerPlay.                                              *)
(***************************************************************************)
\* "playerCase = ...; shufflePrizes(); round = 1" and the first pass through
\* the top of the loop; next is where the game waits then.
BeginGame(c, seed, next) ==
    /\ playerCase' = c
    /\ caseValues' = shuffledCaseValues(seed)
    /\ casesOpened' = allClosed
    /\ remainingPrizes' = updateRemainingPrizes(shuffledCaseValues(seed), allClosed)
    /\ round' = 1
    /\ roundIdx' = 1
    /\ casesToOpen' = << >>
    /\ IF LoopEnds(1, remainingPrizes')
       THEN FinalReveal
       ELSE /\ pc' = next
            /\ UNCHANGED <<finalWinning, stats, updates, outcome, ledger>>
    /\ UNCHANGED <<file, bankOffer, mode, started, loads, saves, offers, loaded,
                   startStats, resets, call>>

\* playGame: the lucky case c is entered (getValidInput(1, 26) - 1).
Choose(c, seed) ==
    /\ pc = "choose"
    /\ BeginGame(c, seed, "select")

\* computerPlay: playerCase = dist(rng).
ComputerBegin(c, seed) ==
    /\ pc = "computer_start"
    /\ BeginGame(c, seed, "computer_round")

\* Mutant: round is incremented when the cases are opened as well.
NextRoundTwice(next) ==
    /\ round' = round + 2
    /\ roundIdx' = roundIdx + 1
    /\ IF LoopEnds(roundIdx + 1, remainingPrizes')
       THEN FinalReveal
       ELSE /\ pc' = next
            /\ UNCHANGED <<finalWinning, stats, updates, outcome, ledger>>

\* "round++" and the top of the loop at the next position of the schedule.
NextRound(next) ==
    /\ round' = round + 1
    /\ roundIdx' = roundIdx + 1
    /\ IF LoopEnds(roundIdx + 1, remainingPrizes')
       THEN FinalReveal
       ELSE /\ pc' = next
            /\ UNCHANGED <<finalWinning, stats, updates, outcome, ledger>>

\* The ids a case prompt accepts, ascending: not the player's case, not open,
\* not already selected for this round.
RECURSIVE acceptedFrom(_)
acceptedFrom(i) ==
    IF i >= NumCases THEN << >>
    ELSE (IF i = playerCase \/ casesOpened[i] \/ Contains(casesToOpen, i)
          THEN << >> ELSE <<i>>) \o acceptedFrom(i + 1)

\* The inputs tried at a case prompt: the MaxPick lowest accepted ids, and ids
\* the prompt refuses: the player's case, an open case, a case of this batch.
PickInputs ==
    IF pc # "select" THEN {}
    ELSE LET acc == acceptedFrom(0)
         IN  {acc[i] : i \in 1..Min(MaxPick, Len(acc))}
             \cup {playerCase}
             \cup {i \in CaseIds :
                     casesOpened[i] /\ \A j \in CaseIds : casesOpened[j] => i <= j}
             \cup {casesToOpen[i] : i \in 1..Min(1, Len(casesToOpen))}

(***************************************************************************)
(* playGame, one answer to "Case i:" (lines 452-479).  A refused id only   *)
(* prints; an accepted id joins the batch; the id that completes the batch *)
(* has the batch opened and, with two or more prizes left, the offer made. *)
(***************************************************************************)
Select(c) ==
    /\ pc = "select"
    /\ c \in CaseIds
    /\ IF c = playerCase \/ casesOpened[c] \/ Contains(casesToOpen, c)
       THEN UNCHANGED vars
       ELSE LET batch == Append(casesToOpen, c)
                r     == openCases(caseValues, casesOpened, remainingPrizes, batch)
            IN  /\ casesToOpen' = batch
                /\ UNCHANGED <<file, caseValues, playerCase, round, roundIdx, mode,
                               started, loads, saves, loaded, startStats, resets>>
                /\ IF Len(batch) < casesToOpenPerRound[roundIdx]
                   THEN UNCHANGED <<pc, stats, casesOpened, remainingPrizes, finalWinning,
                                    bankOffer, outcome, updates, offers, ledger, call>>
                   ELSE /\ casesOpened' = r.opened
                        /\ remainingPrizes' = r.remaining
                        /\ IF ~r.ok
                           THEN Abandon /\ UNCHANGED <<bankOffer, offers, call>>
                           ELSE IF TooFewLeft(r.remaining)
                           THEN FinalReveal /\ UNCHANGED <<bankOffer, offers, call>>
                           ELSE /\ bankOffer' = calculateBankOffer(r.remaining, round)
                                /\ AdvisorAsked(r.remaining, bankOffer')
                                /\ offers' = offers + 1
                                /\ pc' = "deal"
                                /\ UNCHANGED <<finalWinning, stats, updates, outcome,
                                               ledger>>

\* playGame, the answer to "Deal or No Deal?" (lines 481-501).
Deal(yes) ==
    /\ pc = "deal"
    /\ UNCHANGED <<file, caseValues, casesOpened, remainingPrizes, playerCase,
                   bankOffer, mode, started, loads, saves, offers, loaded, startStats,
                   resets, call>>
    /\ IF yes
       THEN /\ Conclude(bankOffer, "deal")
            /\ UNCHANGED <<round, roundIdx, casesToOpen>>
       ELSE /\ NextRound("select")
            /\ casesToOpen' = IF LoopEnds(roundIdx + 1, remainingPrizes)
                              THEN casesToOpen ELSE << >>

(***************************************************************************)
(* computerPlay, one pass of the loop (lines 526-558) and, when the loop   *)
(* ends, the final reveal (lines 560-564).                                 *)
(***************************************************************************)
ComputerRound(seed) ==
    /\ pc = "computer_round"
    /\ LET selected == selectCasesToOpen(casesOpened, casesToOpenPerRound[roundIdx], seed)
           batch    == Erase(selected, playerCase)
           r        == openCases(caseValues, casesOpened, remainingPrizes, batch)
       IN  /\ casesToOpen' = batch
           /\ casesOpened' = r.opened
           /\ remainingPrizes' = r.remaining
           /\ UNCHANGED <<file, caseValues, playerCase, mode, started, loads, saves,
                          loaded, startStats, resets>>
           /\ IF ~r.ok
              THEN Abandon /\ UNCHANGED <<bankOffer, offers, round, roundIdx, call>>
              ELSE IF TooFewLeft(r.remaining)
              THEN FinalReveal /\ UNCHANGED <<bankOffer, offers, round, roundIdx, call>>
              ELSE /\ bankOffer' = calculateBankOffer(r.remaining, round)
                   /\ offers' = offers + 1
                   /\ ComputerAsked(r.remaining, bankOffer')
                   /\ IF call'.answer = "DEAL"
                      THEN Conclude(bankOffer', "deal") /\ UNCHANGED <<round, roundIdx>>
                      ELSE NextRound("computer_round")

(***************************************************************************)
(* Spec: one game instance, from the menu choice that constructs it to its *)
(* return to the menu, with every input of the bounded input sets.  A game *)
(* object is constructed afresh for every game and takes nothing from the  *)
(* games before it but the statistics file, so the runs of the first game  *)
(* from every InitialFiles are the runs of a game instance.                *)
(***************************************************************************)
FirstGame == started = 0

PlayInput == \E c \in PlayerCaseInputs, s \in Seeds : Choose(c, s)
DealInput == \E yes \in BOOLEAN : Deal(yes)
ComputerStep ==
    \/ \E c \in PlayerCaseInputs, s \in Seeds : ComputerBegin(c, s)
    \/ \E s \in Seeds : ComputerRound(s)

Next ==
    \/ FirstGame /\ MenuPlay
    \/ FirstGame /\ MenuComputer
    \/ PlayInput
    \/ \E c \in PickInputs : Select(c)
    \/ DealInput
    \/ ComputerStep

Spec == Init /\ [][Next]_vars

(***************************************************************************)
(* SpecFair: computerPlay waits for no input, so its steps are taken       *)
(* whenever they can be: weak fairness of ComputerStep.  The fairness is   *)
(* written out, []<>~ENABLED <<A>>_vars \/ []<><<A>>_vars, with the        *)
(* enabling condition of ComputerStep in place of ENABLED: ComputerBegin   *)
(* and ComputerRound have no guard but pc, and each changes roundIdx or    *)
(* pc.                                                                     *)
(***************************************************************************)
ComputerRuns == pc \in {"computer_start", "computer_round"}

SpecFair == Spec /\ ([]<>(~ComputerRuns) \/ []<><<ComputerStep>>_vars)

(***************************************************************************)
(* SpecProcess: a whole process, from GameMenu() to exit, that starts up   *)
(* to MaxGames games; to keep several games in reach each game has one     *)
(* lucky case (0), one shuffle (seed 0) and the lowest accepted id at each *)
(* case prompt, and every Deal / No Deal answer.                           *)
(***************************************************************************)
LowestPick ==
    IF pc # "select" THEN {}
    ELSE LET acc == acceptedFrom(0) IN {acc[i] : i \in 1..Min(1, Len(acc))}

NextProcess ==
    \/ started < MaxGames /\ MenuPlay
    \/ started < MaxGames /\ MenuComputer
    \/ \E choice \in {3, 5, 7} : MenuShow(choice)
    \/ MenuReset
    \/ MenuExit
    \/ Choose(0, 0)
    \/ \E c \in LowestPick : Select(c)
    \/ \E yes \in BOOLEAN : Deal(yes)
    \/ ComputerBegin(0, 0)
    \/ ComputerRound(0)

SpecProcess == Init /\ [][NextProcess]_vars

(***************************************************************************)
(* SpecOpenCases: openCases applied to any batch.  A human game is started *)
(* and, where it would prompt for a case, openCases is called with a batch *)
(* of up to MaxBatch ids drawn from -1..MaxBatchId, 25 and 26, inside the  *)
(* try block of playGame: a GameStateException ends the game at the catch. *)
(***************************************************************************)
MaxBatch == 2
MaxBatchId == 2

BatchIds == (-1..MaxBatchId) \cup {NumCases - 1, NumCases}

RECURSIVE BatchesOf(_)
BatchesOf(n) ==
    IF n = 0 THEN {<< >>}
    ELSE LET shorter == BatchesOf(n - 1)
         IN  shorter \cup {Append(b, i) : b \in {x \in shorter : Len(x) = n - 1}, i \in BatchIds}

OpenCasesCall(batch) ==
    /\ pc = "select"
    /\ LET r == openCases(caseValues, casesOpened, remainingPrizes, batch)
       IN  /\ casesToOpen' = batch
           /\ casesOpened' = r.opened
           /\ remainingPrizes' = r.remaining
           /\ IF r.ok
              THEN UNCHANGED <<pc, outcome, finalWinning, stats, updates, ledger>>
              ELSE Abandon
    /\ UNCHANGED <<file, caseValues, playerCase, round, roundIdx, bankOffer, mode,
                   started, loads, saves, offers, loaded, startStats, resets, call>>

NextOpenCases ==
    \/ FirstGame /\ MenuPlay
    \/ PlayInput
    \/ \E batch \in BatchesOf(MaxBatch) : OpenCasesCall(batch)

SpecOpenCases == Init /\ [][NextOpenCases]_vars

(***************************************************************************)
(* SpecAbandon: the games of Spec, and human games in which a round's      *)
(* openCases (line 468) is handed a batch it refuses: the                  *)
(* GameStateException of line 357 or 361 leaves the try block of playGame  *)
(* and is caught at line 503.                                              *)
(***************************************************************************)
NextAbandon ==
    \/ FirstGame /\ MenuPlay
    \/ FirstGame /\ MenuComputer
    \/ PlayInput
    \/ \E c \in PickInputs : Select(c)
    \/ DealInput
    \/ ComputerStep
    \/ \E batch \in BatchesOf(MaxBatch) :
           /\ pc = "select" /\ casesToOpen = << >>
           /\ ~openCases(caseValues, casesOpened, remainingPrizes, batch).ok
           /\ OpenCasesCall(batch)

SpecAbandon == Init /\ [][NextAbandon]_vars

(***************************************************************************)
(* SpecEndgame: the computer games of Spec, and human games whose rounds   *)
(* open every case a prompt would still accept but the k lowest (k in      *)
(* 0..MaxLeft), so that a round can leave fewer cases hidden than the      *)
(* schedule ever does.                                                     *)
(* The batch is opened and the round goes on as in playGame (lines         *)
(* 468-479): openCases, the break with one prize left, else the offer.     *)
(***************************************************************************)
MaxLeft == 2

EndgameRound(k) ==
    /\ pc = "select"
    /\ UNCHANGED <<file, caseValues, playerCase, round, roundIdx, mode, started, loads,
                   saves, loaded, startStats, resets>>
    /\ LET acc   == acceptedFrom(0)
           batch == casesToOpen \o SubSeq(acc, Min(k, Len(acc)) + 1, Len(acc))
           r     == openCases(caseValues, casesOpened, remainingPrizes, batch)
       IN  /\ casesToOpen' = batch
           /\ casesOpened' = r.opened
           /\ remainingPrizes' = r.remaining
           /\ IF ~r.ok
              THEN Abandon /\ UNCHANGED <<bankOffer, offers, call>>
              ELSE IF TooFewLeft(r.remaining)
              THEN FinalReveal /\ UNCHANGED <<bankOffer, offers, call>>
              ELSE /\ bankOffer' = calculateBankOffer(r.remaining, round)
                   /\ AdvisorAsked(r.remaining, bankOffer')
                   /\ offers' = offers + 1
                   /\ pc' = "deal"
                   /\ UNCHANGED <<finalWinning, stats, updates, outcome, ledger>>

NextEndgame ==
    \/ FirstGame /\ MenuPlay
    \/ FirstGame /\ MenuComputer
    \/ PlayInput
    \/ DealInput
    \/ ComputerStep
    \/ \E k \in 0..MaxLeft : EndgameRound(k)

SpecEndgame == Init /\ [][NextEndgame]_vars

(***************************************************************************)
(* SpecAdvisor: ComputerPlayer::shouldAcceptDeal and getAdvice applied to  *)
(* any hidden-prize list, offer and casesRemaining.  The lists are the     *)
(* empty list, the first and the last n prizes of the catalog (n in        *)
(* 1..MaxPrizes) and some lists of their own (equal prizes, round dollar   *)
(* amounts, a mean that no double holds); casesRemaining is any of         *)
(* 0..MaxCasesRemaining, whatever the list.  The offers for a list are:    *)
(* the whole cents below p percent of its mean, p a multiple of 5 up to    *)
(* 5 * MaxOfferStep or a point next to 80, 85 and 90; the doubles          *)
(* expectedValue * 0.8, * 0.85 and * 0.9 that the program compares the     *)
(* offer with, and a double just below each; the first and the middle      *)
(* prize of the list.                                                      *)
(***************************************************************************)
MaxPrizes == 5
MaxOfferStep == 22
MaxCasesRemaining == 12

PrizeLists ==
    {<< >>, <<30000, 20000, 10000>>, <<100000, 100000>>, <<100000000, 50000000, 1>>,
     <<40000, 30000, 20000, 10000, 100>>, <<100000000, 50000000, 10000000>>}
    \cup {SubSeq(allPrizes, 1, n) : n \in 1..MaxPrizes}
    \cup {SubSeq(allPrizes, NumCases + 1 - n, NumCases) : n \in 1..MaxPrizes}

OfferPercents == {5 * k : k \in 0..MaxOfferStep} \cup {79, 81, 84, 86, 89, 91}

\* The whole cents in pct percent of the mean of the prizes, as a double.
CentsOffer(prizes, pct) ==
    LET cents == BigToNat(BigDivSmall(BigMulSmall(BigOfNat(SumSeq(prizes)), pct),
                                      100 * Len(prizes)))
    IN  IF cents % 100 = 0 THEN DOfNat(cents \div 100) ELSE DOfDecimal(cents, -2)

\* A double below a > 0, at most two units in the last place away.
JustBelow(a) ==
    LET k == Precision - BigBitLength(a.m)
    IN  DRound(FALSE, BigSub(BigShl(a.m, k), <<1>>), a.e - k, FALSE)

OffersFor(prizes) ==
    IF prizes = << >> THEN {DZero, One}
    ELSE LET expectedValue == calculateExpectedValue(prizes)
             thresholds == {DMul(expectedValue, c) :
                              c \in {EightTenths, EightyFiveHundredths, NineTenths}}
         IN  {CentsOffer(prizes, pct) : pct \in OfferPercents}
             \cup thresholds
             \cup {JustBelow(x) : x \in thresholds}
             \cup {PrizeD(prizes[i]) : i \in {1, (Len(prizes) + 1) \div 2}}

AdvisorCalls ==
    UNION { { [op |-> "advise", prizes |-> ps, bankOffer |-> offer, casesRemaining |-> n,
               decided |-> FALSE, accept |-> FALSE, advised |-> FALSE, advice |-> ""] :
              offer \in OffersFor(ps), n \in 0..MaxCasesRemaining } :
            ps \in PrizeLists }

InitAdvisor == Constructed /\ file = NoFile /\ call \in AdvisorCalls

\* computerPlay line 544: aiPlayer->shouldAcceptDeal(...).
DecideCall ==
    /\ call.op = "advise"
    /\ ~call.decided
    /\ call' = [call EXCEPT !.decided = TRUE,
                            !.accept = shouldAcceptDeal(call.prizes, call.bankOffer,
                                                        call.casesRemaining)]
    /\ UNCHANGED <<pc, file, stats, mode, started, loads, saves, loaded, startStats,
                   ledger, resets>>
    /\ UNCHANGED gameVars

\* playGame line 479: aiPlayer->getAdvice(...).
AdviseCall ==
    /\ call.op = "advise"
    /\ ~call.advised
    /\ call' = [call EXCEPT !.advised = TRUE,
                            !.advice = getAdvice(call.prizes, call.bankOffer,
                                                 call.casesRemaining)]
    /\ UNCHANGED <<pc, file, stats, mode, started, loads, saves, loaded, startStats,
                   ledger, resets>>
    /\ UNCHANGED gameVars

NextAdvisor ==
    \/ DecideCall
    \/ AdviseCall

SpecAdvisor == InitAdvisor /\ [][NextAdvisor]_vars

(***************************************************************************)
(* SpecOffer: DealOrNoDealGame::calculateBankOffer applied to any list of  *)
(* hidden prizes (PrizeLists) and any round from 0 to MaxRound, and two    *)
(* far larger rounds; after a call the round may grow to any larger one    *)
(* and the offer is computed again for the same prizes.                    *)
(***************************************************************************)
MaxRound == 20

Rounds == (0..MaxRound) \cup {1000, 1000000}

OfferCalls ==
    { [op |-> "offer", prizes |-> ps, round |-> r, done |-> FALSE, percentage |-> DZero,
       offer |-> DZero] : ps \in PrizeLists, r \in Rounds }

InitOffer == Constructed /\ file = NoFile /\ call \in OfferCalls

OfferCall ==
    /\ call.op = "offer"
    /\ ~call.done
    /\ call' = [call EXCEPT !.done = TRUE,
                            !.percentage = offerPercentage(call.round),
                            !.offer = calculateBankOffer(call.prizes, call.round)]
    /\ UNCHANGED <<pc, file, stats, mode, started, loads, saves, loaded, startStats,
                   ledger, resets>>
    /\ UNCHANGED gameVars

LaterOfferCall(r) ==
    /\ call.op = "offer"
    /\ call.done
    /\ r > call.round
    /\ call' = [call EXCEPT !.round = r,
                            !.percentage = offerPercentage(r),
                            !.offer = calculateBankOffer(call.prizes, r)]
    /\ UNCHANGED <<pc, file, stats, mode, started, loads, saves, loaded, startStats,
                   ledger, resets>>
    /\ UNCHANGED gameVars

NextOffer ==
    \/ OfferCall
    \/ \E r \in Rounds : LaterOfferCall(r)

SpecOffer == InitOffer /\ [][NextOffer]_vars

(***************************************************************************)
(* SpecSelect: ComputerPlayer::selectCasesToOpen applied to any opened-set *)
(* and count.  The opened-sets are the sets A \cup (k..25) with A a subset  *)
(* of 0..MaxLowId and k one of TailStarts, so that both many and few (even *)
(* no) cases are unopened; the counts are 0..MaxCount.                     *)
(***************************************************************************)
MaxLowId == 2
MaxCount == 7

TailStarts == {MaxLowId + 1, MaxLowId + 3, NumCases - 1, NumCases}

OpenedSets == {A \cup (k..(NumCases - 1)) : A \in SUBSET (0..MaxLowId), k \in TailStarts}

SelectCalls ==
    { [op |-> "select", done |-> FALSE, opened |-> [i \in CaseIds |-> i \in S],
       numToOpen |-> n, seed |-> s, selected |-> << >>] :
      S \in OpenedSets, n \in 0..MaxCount, s \in Seeds }

InitSelect == Constructed /\ file = NoFile /\ call \in SelectCalls

SelectCall ==
    /\ call.op = "select"
    /\ ~call.done
    /\ call' = [call EXCEPT !.done = TRUE,
                            !.selected = selectCasesToOpen(call.opened, call.numToOpen,
                                                           call.seed)]
    /\ UNCHANGED <<pc, file, stats, mode, started, loads, saves, loaded, startStats,
                   ledger, resets>>
    /\ UNCHANGED gameVars

NextSelect == SelectCall

SpecSelect == InitSelect /\ [][NextSelect]_vars

(***************************************************************************)
(* Properties.                                                             *)
(***************************************************************************)
\* A game has been shuffled (casesOpened has its 26 entries).
Shuffled26 == casesOpened # << >>

Unopened == IF Shuffled26 THEN {i \in CaseIds : ~casesOpened[i]} ELSE {}
Opened   == IF Shuffled26 THEN {i \in CaseIds : casesOpened[i]} ELSE {}

\* The sum (cents) of the values behind a set of cases.
RECURSIVE ValueSum(_)
ValueSum(ids) ==
    IF ids = {} THEN 0
    ELSE LET i == CHOOSE j \in ids : TRUE IN caseValues[i] + ValueSum(ids \ {i})

\* How many cases the first k rounds of the schedule 6,5,4,3,2,1,1,1,1 open.
RECURSIVE ScheduledUpTo(_)
ScheduledUpTo(k) == IF k = 0 THEN 0 ELSE <<6, 5, 4, 3, 2, 1, 1, 1, 1>>[k] + ScheduledUpTo(k - 1)

Concluded == outcome \in {"deal", "reveal"}

(***************************************************************************)
(* The quantities the specification names, for a list of prizes in cents   *)
(* and an offer, evaluated in the program's arithmetic (binary64).         *)
(***************************************************************************)
\* s.total plus the prizes of s.rest, added one after the other in list
\* order.
RECURSIVE SumOnto(_)
SumOnto(s) ==
    IF s.rest = << >> THEN s.total
    ELSE SumOnto([total |-> DAdd(s.total, PrizeD(Head(s.rest))),
                  rest  |-> Tail(s.rest)])

\* mean = sum(hiddenPrizes) / count(hiddenPrizes).
MeanOf(prizes) ==
    DDiv(SumOnto([total |-> DZero, rest |-> prizes]), DOfNat(Len(prizes)))

\* percentage = min(0.9, 0.10 + 0.05 * round).
PercentageOf(r) ==
    LET p == DAdd(DOfDecimal(10, -2), DMul(DOfDecimal(5, -2), DOfNat(r)))
    IN  IF DLess(p, DOfDecimal(9, -1)) THEN p ELSE DOfDecimal(9, -1)

\* offer >= share * mean.
OfferAtLeast(prizes, offer, share) == DLeq(DMul(share, MeanOf(prizes)), offer)

\* offer <= share * mean.
OfferAtMost(prizes, offer, share) == DLeq(offer, DMul(share, MeanOf(prizes)))

\* offer < mean in real numbers: with S the sum of the prizes in cents, n
\* their count and offer = m * 2^e, that is 100 * n * m * 2^e < S.
BelowTrueMean(prizes, offer) ==
    LET lhs == BigMulSmall(offer.m, 100 * Len(prizes))
        S   == BigOfNat(SumSeq(prizes))
    IN  IF offer.m = << >> THEN SumSeq(prizes) > 0
        ELSE IF offer.e >= 0 THEN BigLess(BigShl(lhs, offer.e), S)
        ELSE BigLess(lhs, BigShl(S, -offer.e))

\* C1: in every state of a game, human or computer, from the shuffle on, the
\* player's chosen case is unopened.
C1_PlayerCaseStaysClosed ==
    Shuffled26 => (playerCase \in CaseIds /\ ~casesOpened[playerCase])

\* A computer round whose random selection contained the player's case (the
\* batch is shorter than the selection), and the case is still closed.
C1_Witness ==
    /\ mode = "computer"
    /\ offers >= 1
    /\ Len(casesToOpen) < <<6, 5, 4, 3, 2, 1, 1, 1, 1>>[offers]
    /\ ~casesOpened[playerCase]

\* C2: a game makes at most 9 offers; once the 9th offer is made the game is
\* concluded or waits for the human's answer, and any answer to the 9th offer
\* concludes the game (a No Deal by the final reveal); a computer game, which
\* waits for no input, always reaches a concluded state.
C2_GameConcludes ==
    /\ [](offers <= 9)
    /\ [](offers = 9 => (Concluded \/ pc = "deal"))
    /\ [][(pc = "deal" /\ offers = 9) =>
            (Concluded' /\ (outcome' = "deal" \/ outcome' = "reveal")
             /\ (round' # round => outcome' = "reveal"))]_vars
    /\ (ComputerRuns ~> Concluded)

\* Nine offers were rejected by a human and the game ended in the final reveal.
C2_Witness == mode = "human" /\ offers = 9 /\ outcome = "reveal"

\* C3: a game that ended by a Deal pays the offer of the round of the deal:
\* the mean of the prizes hidden after that round's openings times the
\* percentage 10 + 5 * round; the round counter is that of the offer (1 for the
\* first offer, one more for every offer rejected before) and the process is
\* back at the menu.
C3_DealPaysOffer ==
    outcome = "deal" =>
        /\ pc = "menu"
        /\ finalWinning = bankOffer
        /\ round = offers
        /\ Len(remainingPrizes) = Cardinality(Unopened)
        /\ {remainingPrizes[i] : i \in 1..Len(remainingPrizes)}
             = {caseValues[c] : c \in Unopened}
        /\ finalWinning = DMul(MeanOf(remainingPrizes), PercentageOf(round))
        /\ PercentageOf(round) = DAdd(DOfDecimal(10, -2), DMul(DOfDecimal(5, -2), DOfNat(round)))

\* The computer accepted an offer after rejecting earlier ones.
C3_Witness == outcome = "deal" /\ mode = "computer" /\ offers >= 2

\* C4: a game whose 9 offers were all rejected ends by the final reveal and
\* pays the value behind the player's case, with more than one case unopened.
C4_RevealPaysOwnCase ==
    (pc = "menu" /\ offers = 9 /\ outcome # "deal") =>
        /\ outcome = "reveal"
        /\ finalWinning = PrizeD(caseValues[playerCase])
        /\ \E s \in Seeds : caseValues = shuffledCaseValues(s)
        /\ Cardinality(Unopened) > 1

\* A computer game ended by the final reveal with more than 2 cases unopened.
C4_Witness ==
    mode = "computer" /\ offers = 9 /\ outcome = "reveal" /\ Cardinality(Unopened) > 2

\* C5: at process exit, without a statistics reset, the file holds the games
\* played as loaded at process start plus every game concluded since, and the
\* total winnings as loaded plus the sum of their payouts.
C5_AllGamesPersisted ==
    (pc = "exit" /\ ~resets) =>
        /\ file.exists
        /\ file.gamesPlayed = startStats.gamesPlayed + ledger.games
        /\ readDouble(file.totalWinnings) = DAdd(startStats.totalWinnings, ledger.winnings)

\* The games-played half of C5 alone (the count is written exactly).
C5_GamesCounted ==
    (pc = "exit" /\ ~resets) => file.gamesPlayed = startStats.gamesPlayed + ledger.games

\* C6: a concluded game (Deal or final reveal) has called updateStats exactly
\* once, with its payout, on the statistics it loaded; a game abandoned by a
\* GameStateException, and a game still running, has called it zero times; a
\* concluded or abandoned game is back at the menu.
C6_OneUpdatePerGame ==
    /\ Concluded =>
         /\ updates = 1
         /\ pc = "menu"
         /\ stats.gamesPlayed = loaded.gamesPlayed + 1
         /\ stats.totalWinnings = DAdd(loaded.totalWinnings, finalWinning)
    /\ outcome = "abandoned" => (updates = 0 /\ stats = loaded /\ pc = "menu")
    /\ outcome = "none" => (updates = 0 /\ stats = loaded)

\* A game abandoned in a later round, after an offer was rejected, by a batch
\* whose first case was opened before the second was refused, on statistics
\* loaded from a file.
C6_Witness ==
    /\ outcome = "abandoned" /\ pc = "menu" /\ offers > 0
    /\ Len(casesToOpen) = 2 /\ casesToOpen[1] \in Opened
    /\ Contains(remainingPrizes, caseValues[casesToOpen[1]])
    /\ updates = 0 /\ loaded.gamesPlayed = 3 /\ stats.gamesPlayed = 3

\* A batch that contains an id outside 0..25 or an id open before the call.
BadBatch(batch) ==
    \E i \in 1..Len(batch) :
        batch[i] \notin CaseIds \/ casesOpened[batch[i]]

\* C7: openCases on a batch with an already open or out-of-range id throws
\* GameStateException and leaves casesOpened and remainingPrizes as they were.
C7_FailedOpenLeavesState ==
    [][(pc = "select" /\ casesToOpen' # casesToOpen /\ BadBatch(casesToOpen')) =>
          /\ outcome' = "abandoned"
          /\ casesOpened' = casesOpened
          /\ remainingPrizes' = remainingPrizes]_vars

\* C8: at the k-th offer of a game, human or computer, the batch opened for
\* it has the k-th size of the schedule 6,5,4,3,2,1,1,1,1 (and so the cases
\* opened so far are those of the first k rounds).
C8_ScheduledBatch ==
    (offers >= 1 /\ (pc = "deal" \/ mode = "computer")) =>
        /\ Len(casesToOpen) = <<6, 5, 4, 3, 2, 1, 1, 1, 1>>[offers]
        /\ Cardinality(Opened) = ScheduledUpTo(offers)

\* C9: from the shuffle on, with K cases opened, remainingPrizes has 26 - K
\* entries, holds exactly the values of the unopened cases (the values are
\* distinct, so equal sets of equal size are equal multisets) and descends.
C9_RemainingPrizes ==
    (Shuffled26 /\ outcome # "abandoned") =>
        /\ Len(remainingPrizes) = 26 - Cardinality(Opened)
        /\ {remainingPrizes[i] : i \in 1..Len(remainingPrizes)}
             = {caseValues[c] : c \in Unopened}
        /\ \A i \in 1..(Len(remainingPrizes) - 1) : remainingPrizes[i] > remainingPrizes[i + 1]

\* Three rounds (15 cases) were opened and the human is offered a deal.
C9_Witness == pc = "deal" /\ Cardinality(Opened) = 15 /\ Len(remainingPrizes) = 11

\* C10: within one game a case once open stays open, and the shuffle that
\* starts a game (round 0 to 1) leaves every case closed.
C10_OpenedOnlyGrows ==
    [][/\ (started' = started /\ Shuffled26) =>
             \A i \in CaseIds : casesOpened[i] => casesOpened'[i]
       /\ (round = 0 /\ round' = 1) => \A i \in CaseIds : ~casesOpened'[i]]_vars

\* The second game of a process with two rounds of cases opened.
C10_Witness == started = 2 /\ Cardinality(Opened) = 11

\* C11: selectCasesToOpen returns only ids of unopened cases, no id twice, and
\* exactly min(count, number of unopened cases) ids.
C11_SelectionIsUnopened ==
    (call.op = "select" /\ call.done) =>
        LET sel == call.selected
            unopenedIds == {i \in CaseIds : ~call.opened[i]}
        IN  /\ \A i \in 1..Len(sel) : sel[i] \in unopenedIds
            /\ \A i, j \in 1..Len(sel) : i # j => sel[i] # sel[j]
            /\ Len(sel) = IF call.numToOpen < Cardinality(unopenedIds)
                          THEN call.numToOpen ELSE Cardinality(unopenedIds)

\* A call asking for more cases than are unopened, with open ids below them.
C11_Witness ==
    /\ call.op = "select" /\ call.done
    /\ call.opened[0] /\ ~call.opened[1]
    /\ Len(call.selected) = 2 /\ call.numToOpen = 5

\* C12: an offer is computed and a decision requested only with at least 2
\* prizes hidden after the round's openings; with fewer, the game goes to the
\* final reveal without an offer or a decision.
C12_OfferNeedsTwoHidden ==
    [][/\ offers' # offers =>
            /\ offers' = offers + 1
            /\ Len(remainingPrizes') >= 2
            /\ Cardinality({i \in CaseIds : ~casesOpened'[i]}) >= 2
       /\ (pc' = "deal" /\ pc # "deal") => offers' = offers + 1
       /\ (Shuffled26 /\ casesOpened' # casesOpened /\ Len(remainingPrizes') < 2) =>
            /\ offers' = offers
            /\ bankOffer' = bankOffer
            /\ outcome' = "reveal"
            /\ pc' = "menu"]_vars

\* A round that left one prize hidden ended the game by the final reveal,
\* after an earlier round's offer had been declined.
C12_Witness ==
    /\ outcome = "reveal" /\ Len(remainingPrizes) = 1 /\ offers = 1 /\ round = 2

(***************************************************************************)
(* The decision rules as the specification states them.                    *)
(***************************************************************************)
\* How many prizes are strictly greater than the offer.
PrizesAbove(prizes, offer) ==
    Cardinality({i \in 1..Len(prizes) : DLess(offer, PrizeD(prizes[i]))})

\* s.total plus the squared deviations of the prizes of s.rest from the
\* mean, added one after the other in list order.
RECURSIVE SquaredDeviationsOnto(_, _)
SquaredDeviationsOnto(s, mean) ==
    IF s.rest = << >> THEN s.total
    ELSE SquaredDeviationsOnto(
             [total |-> DAdd(s.total, DMul(DSub(PrizeD(Head(s.rest)), mean),
                                           DSub(PrizeD(Head(s.rest)), mean))),
              rest  |-> Tail(s.rest)],
             mean)

\* stdDeviation: the population standard deviation (the sum of the squared
\* deviations divided by the count), 0 when fewer than 2 values remain.
PopulationDeviation(prizes) ==
    IF Len(prizes) < 2 THEN DZero
    ELSE DSqrt(DDiv(SquaredDeviationsOnto([total |-> DZero, rest |-> prizes],
                                          MeanOf(prizes)),
                    DOfNat(Len(prizes))))

\* riskFactor = probabilityPrizeExceedsOffer
\*              - 0.3 * (stdDeviation / (expectedValue + 1)).
RiskFactorOf(prizes, offer) ==
    DSub(DDiv(DOfNat(PrizesAbove(prizes, offer)), DOfNat(Len(prizes))),
         DMul(DOfDecimal(3, -1),
              DDiv(PopulationDeviation(prizes), DAdd(MeanOf(prizes), DOfNat(1)))))

\* riskFactor < 0.4.
RiskFactorUnderFourTenths(prizes, offer) ==
    DLess(RiskFactorOf(prizes, offer), DOfDecimal(4, -1))

LateRule(prizes, offer) ==
    RiskFactorUnderFourTenths(prizes, offer) \/ OfferAtLeast(prizes, offer, DOfDecimal(8, -1))

Decided == call.op = "advise" /\ call.decided /\ call.prizes # << >>

\* C13: for non-empty hiddenPrizes the tier is chosen by casesRemaining alone:
\* more than 10 accepts iff offer >= 0.9 * mean; 6..10 accepts iff offer >=
\* 0.85 * mean; 5 or fewer uses the Late rule.
C13_TiersByCasesRemaining ==
    Decided =>
        call.accept =
            IF call.casesRemaining > 10
            THEN OfferAtLeast(call.prizes, call.bankOffer, DOfDecimal(9, -1))
            ELSE IF 5 < call.casesRemaining /\ call.casesRemaining <= 10
            THEN OfferAtLeast(call.prizes, call.bankOffer, DOfDecimal(85, -2))
            ELSE LateRule(call.prizes, call.bankOffer)

\* Ten cases remaining with three hidden prizes and an offer of 86 percent of
\* their mean: Mid accepts where Early would not.
C13_Witness ==
    /\ Decided /\ call.casesRemaining = 10 /\ Len(call.prizes) = 3
    /\ call.accept
    /\ ~OfferAtLeast(call.prizes, call.bankOffer, DOfDecimal(9, -1))

\* C14: in the Late tier (casesRemaining <= 5, hiddenPrizes non-empty)
\* shouldAcceptDeal accepts iff riskFactor < 0.4 or offer >= 0.8 * mean, with
\* riskFactor = (fraction of prizes strictly above the offer) - 0.3 *
\* (population standard deviation / (mean + 1)).
C14_LateRule ==
    (Decided /\ call.casesRemaining <= 5) =>
        /\ call.accept = (\/ RiskFactorUnderFourTenths(call.prizes, call.bankOffer)
                          \/ OfferAtLeast(call.prizes, call.bankOffer, DOfDecimal(8, -1)))
        /\ Len(call.prizes) = 1 =>
              (RiskFactorUnderFourTenths(call.prizes, call.bankOffer)
                 <=> PrizesAbove(call.prizes, call.bankOffer) = 0)

\* A Late decision made by the risk factor alone: the offer is below 80
\* percent of the mean, most prizes are above it, and it is accepted.
C14_Witness ==
    /\ Decided /\ call.casesRemaining <= 5 /\ call.accept
    /\ ~OfferAtLeast(call.prizes, call.bankOffer, DOfDecimal(8, -1))
    /\ 2 * PrizesAbove(call.prizes, call.bankOffer) > Len(call.prizes)

\* C18: for the same hiddenPrizes, offer and casesRemaining, the advisor's
\* recommendation (DEAL or NO DEAL) is the decision shouldAcceptDeal makes for
\* the computer player.
C18_AdviceIsDecision ==
    (call.op = "advise" /\ call.decided /\ call.advised) =>
        /\ call.advice \in {"DEAL", "NO DEAL"}
        /\ call.accept <=> call.advice = "DEAL"

\* Both were asked about a Late offer below 80 percent of the mean and agree
\* on DEAL.
C18_Witness ==
    /\ call.op = "advise" /\ call.decided /\ call.advised
    /\ call.casesRemaining = 3 /\ Len(call.prizes) = 3
    /\ call.advice = "DEAL"
    /\ ~OfferAtLeast(call.prizes, call.bankOffer, DOfDecimal(8, -1))

\* C15: for a non-empty list calculateBankOffer returns mean * min(0.9, 0.10 +
\* 0.05 * round), which is strictly below the mean and at most 90 percent of
\* it; for an empty list it returns 0.
C15_OfferIsShareOfMean ==
    (call.op = "offer" /\ call.done) =>
        IF call.prizes = << >> THEN call.offer = DZero
        ELSE /\ call.offer = DMul(MeanOf(call.prizes), PercentageOf(call.round))
             /\ DLess(call.offer, MeanOf(call.prizes))
             /\ BelowTrueMean(call.prizes, call.offer)
             /\ OfferAtMost(call.prizes, call.offer, DOfDecimal(9, -1))

\* An offer for five hidden prizes in a round past the cap: 90 percent.
C15_Witness ==
    /\ call.op = "offer" /\ call.done
    /\ Len(call.prizes) = 5 /\ call.round = 18
    /\ call.offer = DMul(MeanOf(call.prizes), DOfDecimal(9, -1))

\* C16: the offer percentage is non-decreasing in round and never exceeds 0.9
\* however large round grows.
C16_PercentageMonotoneCapped ==
    [][(call.op = "offer" /\ call.done /\ call'.round >= call.round) =>
          /\ DLeq(call.percentage, call'.percentage)
          /\ DLeq(call'.percentage, DOfDecimal(9, -1))
          /\ DLeq(call.percentage, DOfDecimal(9, -1))
          /\ DLeq(call.offer, call'.offer)]_vars

\* The percentage at a round far beyond the schedule, at the cap.
C16_Witness ==
    /\ call.op = "offer" /\ call.done
    /\ call.round = 1000000 /\ call.percentage = DOfDecimal(9, -1)
    /\ call.prizes # << >>

\* C17: round is 1 at the first offer and increments exactly once per
\* completed round: at every offer it is 1 plus the number of offers rejected
\* so far in the game, and opening cases never changes it.
C17_RoundCountsRejections ==
    [][/\ offers' = offers + 1 =>
            /\ round = offers + 1
            /\ bankOffer' = calculateBankOffer(remainingPrizes', offers + 1)
       /\ (Shuffled26 /\ round' # round) =>
            /\ round' = round + 1
            /\ outcome' # "deal"
            /\ \/ pc = "deal" /\ offers' = offers /\ casesOpened' = casesOpened
               \/ mode = "computer" /\ offers' = offers + 1
       /\ (Shuffled26 /\ mode = "human" /\ casesOpened' # casesOpened) => round' = round
       /\ (pc' = "deal") => round' = offers']_vars

\* The computer has rejected four offers: round is 5.
C17_Witness ==
    /\ mode = "computer" /\ pc = "computer_round" /\ offers = 4 /\ round = 5

\* C19: at every offer decision the hidden-prize list used for the offer and
\* for the advisor contains the value behind the player's own case, and the
\* casesRemaining passed to the advisor is the number of unopened cases,
\* the player's case counted.
C19_OwnCaseStaysInPlay ==
    [][offers' = offers + 1 =>
          /\ call'.op = IF mode = "human" THEN "getAdvice" ELSE "shouldAcceptDeal"
          /\ call'.prizes = remainingPrizes'
          /\ call'.bankOffer = bankOffer'
          /\ bankOffer' = calculateBankOffer(call'.prizes, round)
          /\ \E i \in 1..Len(call'.prizes) : call'.prizes[i] = caseValues[playerCase]
          /\ ~casesOpened'[playerCase]
          /\ call'.casesRemaining = Cardinality({i \in CaseIds : ~casesOpened'[i]})]_vars

\* The advisor was asked at the last offer of a human game: two cases remain,
\* the player's and one other.
C19_Witness ==
    /\ pc = "deal" /\ call.op = "getAdvice" /\ call.casesRemaining = 2
    /\ \E i \in 1..2 : call.prizes[i] = caseValues[playerCase]

\* C20: the assignment made by shufflePrizes is a bijection between the 26
\* case ids and the 26 catalog values, and it stays unchanged for the rest of
\* the game: no opening, offer or decision modifies caseValues.
C20_AssignmentIsFixedBijection ==
    /\ [](Shuffled26 =>
            /\ DOMAIN caseValues = CaseIds
            /\ \A j \in 1..Len(allPrizes) : \E i \in CaseIds : caseValues[i] = allPrizes[j]
            /\ \A i, j \in CaseIds : i # j => caseValues[i] # caseValues[j])
    /\ [][Shuffled26 => caseValues' = caseValues]_vars

\* A human game played to the final reveal on the reversed assignment.
C20_Witness ==
    /\ mode = "human" /\ outcome = "reveal" /\ Cardinality(Opened) = 24
    /\ caseValues[0] = allPrizes[NumCases]

\* C21: in one process lifetime the statistics file is loaded exactly once,
\* at startup, and saved exactly once, at shutdown: before exit there is one
\* load and no save, whatever the menu choices, and at exit one of each.
C21_LoadOnceSaveOnce ==
    /\ loads = 1
    /\ saves = IF pc = "exit" THEN 1 ELSE 0

\* C22: in computerPlay the round counter is at most 9 at every offer, so the
\* offer is at most 55 percent of the mean of the hidden prizes and below the
\* 80, 85 and 90 percent thresholds; with more than 5 prizes hidden the
\* computer rejects, and a Deal is concluded only with 5 or fewer hidden and
\* only through riskFactor < 0.4.
C22_ComputerDealsLateByRisk ==
    (mode = "computer" /\ call.op = "shouldAcceptDeal") =>
        /\ (IF call.answer = "DEAL" THEN round ELSE round - 1) \in 1..9
        /\ OfferAtMost(call.prizes, call.bankOffer, DOfDecimal(55, -2))
        /\ ~OfferAtLeast(call.prizes, call.bankOffer, DOfDecimal(8, -1))
        /\ call.casesRemaining > 5 => call.answer = "NO DEAL"
        /\ outcome = "deal" =>
              /\ call.answer = "DEAL"
              /\ call.prizes = remainingPrizes
              /\ finalWinning = call.bankOffer
              /\ Len(remainingPrizes) <= 5
              /\ RiskFactorUnderFourTenths(call.prizes, call.bankOffer)

\* The computer rejected every offer made with more than 5 prizes hidden and
\* concluded a Deal with 5 or fewer.
C22_Witness ==
    /\ mode = "computer" /\ outcome = "deal" /\ offers >= 5
    /\ Len(remainingPrizes) <= 5 /\ Len(remainingPrizes) >= 2

\* The ids of the batch are pairwise distinct.
Distinct(batch) == \A i, j \in 1..Len(batch) : i # j => batch[i] # batch[j]

\* openCases is called in this step: a human completes the batch of the
\* round, or the computer plays a round.  The batch is casesToOpen'.
OpenCasesCalled ==
    \/ /\ pc = "select"
       /\ casesToOpen' # casesToOpen
       /\ Len(casesToOpen') = casesToOpenPerRound[roundIdx]
    \/ pc = "computer_round"

\* C23: in every run of playGame and computerPlay each batch handed to
\* openCases holds only distinct, in-range ids of cases unopened at the call,
\* so openCases opens exactly the batch, never throws GameStateException, and
\* no game is abandoned.
C23_BatchesAreOpenable ==
    /\ [](outcome # "abandoned")
    /\ [][OpenCasesCalled =>
            /\ Distinct(casesToOpen')
            /\ \A i \in 1..Len(casesToOpen') :
                  casesToOpen'[i] \in CaseIds /\ ~casesOpened[casesToOpen'[i]]
            /\ \A c \in CaseIds :
                  casesOpened'[c] <=>
                     (casesOpened[c] \/ \E i \in 1..Len(casesToOpen') : casesToOpen'[i] = c)
            /\ outcome' # "abandoned"]_vars

\* A human game in which four batches were opened, the last of 3 cases.
C23_Witness ==
    /\ mode = "human" /\ pc = "deal" /\ offers = 4 /\ Len(casesToOpen) = 3
    /\ Cardinality(Opened) = 18 /\ outcome = "none"

\* C24: from the shuffle on at least 2 cases are unopened, the player's case
\* among them (at most 24 of 26 are ever opened), so at least 2 prizes remain
\* and the "remainingPrizes.size() <= 1" exits are never taken: a game that
\* ends by the final reveal has made 9 offers, all rejected.
C24_TwoCasesStayClosed ==
    Shuffled26 =>
        /\ Cardinality(Unopened) >= 2
        /\ playerCase \in Unopened
        /\ Cardinality(Opened) <= 24
        /\ Len(remainingPrizes) >= 2
        /\ ~TooFewLeft(remainingPrizes)
        /\ outcome = "reveal" => (offers = 9 /\ round = 10 /\ roundIdx = 10)

\* A computer game that rejected all 9 offers and is at the final reveal with
\* more than 2 cases unopened (a round's selection held its own case).
C24_Witness ==
    /\ mode = "computer" /\ outcome = "reveal" /\ offers = 9
    /\ Cardinality(Unopened) > 2

====
